---------------------------- MODULE Spec2Model ----------------------------
(***************************************************************************)
(* Model of app.py of VicEduTutor: the hybrid retriever query_graph_rag,   *)
(* the relevance gate is_query_relevant and the "Generate Activity"        *)
(* handler that combines them into a prompt.                               *)
(*                                                                         *)
(* Python strings on which the code does character work (lower(), the      *)
(* substring test `in`, f-string formatting of a number) are sequences of  *)
(* one-character strings.  Strings that the code only copies (chunk ids,   *)
(* chunk texts, example sentences) are TLA+ strings.                       *)
(* Python lists are sequences; Python's 0-based positions are kept as      *)
(* integers and translated to 1-based sequence offsets where a list is     *)
(* subscripted.                                                            *)
(***************************************************************************)
EXTENDS Integers, Sequences, FiniteSets, TLC

VARIABLES metadata_store,   \* the Corpus Store (line 21), fixed after start
          question_type,    \* line 202
          query,            \* line 221 / 223
          selected_area,    \* line 210 / 212
          selected_level,   \* line 207
          top_k,            \* argument of query_graph_rag (line 34)
          pc,               \* position of the handler
          filtered_chunks,  \* line 45
          indices,          \* result slots of index.search (line 59)
          selected_level_internal,  \* line 43
          results,          \* line 64 / 233
          result_slots,     \* for each excerpt of results, the slot it came from
          relevant,         \* the value of is_query_relevant (line 246)
          calls,            \* external calls made by the request, in order
          st_errors,        \* st.error / st.warning diagnostics shown
          prompt            \* the prompt built by the handler

vars == <<metadata_store, question_type, query, selected_area, selected_level,
          top_k, pc, filtered_chunks, indices, selected_level_internal, results,
          result_slots, relevant, calls, st_errors, prompt>>

----------------------------------------------------------------------------
(* Bounds of the model *)

MaxChunks == 3

MaxTopK == 3

MaxDist == 1

MaxQueryLen == 4

----------------------------------------------------------------------------
(* Strings *)

UpperChars == <<"A", "B", "C", "D", "E", "F", "G", "H", "I", "J", "K", "L", "M",
                "N", "O", "P", "Q", "R", "S", "T", "U", "V", "W", "X", "Y", "Z">>

LowerChars == <<"a", "b", "c", "d", "e", "f", "g", "h", "i", "j", "k", "l", "m",
                "n", "o", "p", "q", "r", "s", "t", "u", "v", "w", "x", "y", "z">>

DigitChars == <<"0", "1", "2", "3", "4", "5", "6", "7", "8", "9">>

\* str.lower() on one character
LowerChar(c) ==
    IF \E n \in 1..26 : UpperChars[n] = c
    THEN LowerChars[CHOOSE n \in 1..26 : UpperChars[n] = c]
    ELSE c

\* str.lower()
lower(s) == [n \in 1..Len(s) |-> LowerChar(s[n])]

\* does hay[at .. at+Len(needle)-1] spell needle (at is 1-based)
RECURSIVE MatchAt(_, _, _, _)
MatchAt(needle, hay, at, n) ==
    IF n > Len(needle) THEN TRUE
    ELSE IF hay[at + n - 1] # needle[n] THEN FALSE
    ELSE MatchAt(needle, hay, at, n + 1)

\* Python's `needle in hay` on two strings: a left-to-right scan
RECURSIVE ScanFrom(_, _, _)
ScanFrom(needle, hay, at) ==
    IF at + Len(needle) - 1 > Len(hay) THEN FALSE
    ELSE IF MatchAt(needle, hay, at, 1) THEN TRUE
    ELSE ScanFrom(needle, hay, at + 1)

StrIn(needle, hay) == ScanFrom(needle, hay, 1)

\* the decimal digits of i >= 0, as an f-string writes {i}
RECURSIVE DecStr(_)
DecStr(i) ==
    IF i < 10 THEN <<DigitChars[i + 1]>>
    ELSE DecStr(i \div 10) \o <<DigitChars[(i % 10) + 1]>>

FoundationStr == <<"F", "o", "u", "n", "d", "a", "t", "i", "o", "n">>

YearPrefix == <<"Y", "e", "a", "r", " ">>

LevelPrefix == <<"L", "e", "v", "e", "l", " ">>

UnknownStr == <<"U", "n", "k", "n", "o", "w", "n">>

----------------------------------------------------------------------------
(* Levels and the level map *)

\* levels = ["Foundation"] + [f"Year {i}" for i in range(1, 11)]
levels == <<FoundationStr>> \o [i \in 1..10 |-> YearPrefix \o DecStr(i)]

\* a level map that keeps only the first digit of the year
level_map_first_digit ==
    [L \in {FoundationStr} \cup {YearPrefix \o DecStr(i) : i \in 1..10} |->
        IF L = FoundationStr THEN FoundationStr
        ELSE LevelPrefix \o <<L[6]>>]

\* Line 42 of app.py is not well-formed Python as it stands (the key of the
\* comprehension is cut short); the map is the one the documentation gives.
\* level_map = {"Foundation": "Foundation"} | {"Year i": "Level i", i in 1..10}
level_map ==
    [L \in {FoundationStr} \cup {YearPrefix \o DecStr(i) : i \in 1..10} |->
        IF L = FoundationStr THEN FoundationStr
        ELSE LevelPrefix \o DecStr(CHOOSE i \in 1..10 : L = YearPrefix \o DecStr(i))]


----------------------------------------------------------------------------
(* The Corpus Store *)

\* Python's None where an area is expected
None == "None"

\* Python's None where a string kept as characters is expected
NoneStr == <<"None">>

\* no prompt built yet
NoPrompt == [template |-> "None"]

\* the KeyError of a subscript with a missing key
KeyError == <<"KeyError">>

Level2Str == LevelPrefix \o DecStr(2)

Level10Str == LevelPrefix \o DecStr(10)

\* the metadata the chunks of the modelled corpora carry
ChunkMetadata ==
    { [learning_area |-> "Science",     level |-> Level2Str],
      [learning_area |-> "Mathematics", level |-> Level2Str],
      [learning_area |-> "Science",     level |-> Level10Str],
      [learning_area |-> "Science",     level |-> UnknownStr] }

\* the chunk stored at 0-based position p: id and text are opaque and distinct
Chunk(p, md) ==
    [id |-> "id " \o ToString(p), text |-> "text " \o ToString(p), metadata |-> md]

Corpora ==
    UNION { { [n \in 1..len |-> Chunk(n - 1, mds[n])] :
                mds \in [1..len -> ChunkMetadata] } : len \in 1..MaxChunks }

\* list[idx] of Python for -len <= idx < len: a negative idx counts from the end
PyItem(list, idx) ==
    IF idx >= 0 THEN list[idx + 1] ELSE list[Len(list) + idx + 1]

\* learning_areas = sorted(set(chunk["metadata"]["learning_area"] ...)), as a set
learning_areas ==
    { metadata_store[n].metadata.learning_area : n \in 1..Len(metadata_store) }

----------------------------------------------------------------------------
(* query_graph_rag: the Metadata Filter (lines 42-52) *)

\* the filter with the level compared for equality instead of containment
ChunkMatchesExactLevel(chunk, area, level_internal) ==
    /\ chunk.metadata.learning_area = area
    /\ \/ level_internal = chunk.metadata.level
       \/ chunk.metadata.level = UnknownStr

\* the condition of the comprehension of line 45, for one chunk
ChunkMatches(chunk, area, level_internal) ==
    /\ chunk.metadata.learning_area = area
    /\ \/ StrIn(level_internal, chunk.metadata.level)
       \/ chunk.metadata.level = UnknownStr

\* [(i, chunk) for i, chunk in enumerate(store) if ...], built left to right
RECURSIVE FilterFrom(_, _, _, _)
FilterFrom(store, n, area, level_internal) ==
    IF n > Len(store) THEN << >>
    ELSE (IF ChunkMatches(store[n], area, level_internal)
          THEN << <<n - 1, store[n]>> >> ELSE << >>)
         \o FilterFrom(store, n + 1, area, level_internal)

FilteredChunks(store, area, level) ==
    FilterFrom(store, 1, area, level_map[level])

----------------------------------------------------------------------------
(* query_graph_rag: the Vector Index and the reconciliation (lines 59-73) *)

\* the distance FAISS reports for a slot it could not fill
InfDist == MaxDist + 1

Min(a, b) == IF a < b THEN a ELSE b

\* What index.search(query_embedding, k) can return for an index over a corpus
\* of n chunks: k slots, nearest first; the first min(k, n) slots hold distinct
\* positions of the full store, the others the label -1.
IndexResults(n, k) ==
    LET m == Min(k, n) IN
    { [j \in 1..k |-> IF j <= m THEN [pos |-> ps[j], dist |-> ds[j]]
                               ELSE [pos |-> -1, dist |-> InfDist]] :
        ps \in { f \in [1..m -> 0..(n - 1)] :
                    \A a, b \in 1..m : a # b => f[a] # f[b] },
        ds \in { g \in [1..m -> 0..MaxDist] :
                    \A a, b \in 1..m : a < b => g[a] <= g[b] } }

\* the guard of line 66
InBounds(idx, fc) == idx < Len(fc)

\* the loop visiting the slots from the last to the first
RECURSIVE EmittingSlotsReversed(_, _, _)
EmittingSlotsReversed(ind, fc, j) ==
    IF j > Len(ind) THEN << >>
    ELSE EmittingSlotsReversed(ind, fc, j + 1)
         \o (IF ind[j].pos < Len(fc) THEN <<j>> ELSE << >>)

\* the loop of lines 65-66 from slot j on: the slots whose position passes
\* the guard, in the order the loop visits them
RECURSIVE EmittingSlots(_, _, _)
EmittingSlots(ind, fc, j) ==
    IF j > Len(ind) THEN << >>
    ELSE (IF InBounds(ind[j].pos, fc) THEN <<j>> ELSE << >>)
         \o EmittingSlots(ind, fc, j + 1)

\* the excerpt read from the full store at the position the index returned
ExcerptFromStore(fc, idx) ==
    [chunk_id |-> PyItem(metadata_store, idx).id,
     text     |-> PyItem(metadata_store, idx).text]

\* lines 67-71: the excerpt appended for the position idx
Excerpt(fc, idx) ==
    [chunk_id |-> PyItem(fc, idx)[2].id, text |-> PyItem(fc, idx)[2].text]

\* lines 64-73: the list query_graph_rag returns for the slots ind
Reconcile(ind, fc) ==
    LET slots == EmittingSlots(ind, fc, 1)
    IN  [n \in 1..Len(slots) |-> Excerpt(fc, ind[slots[n]].pos)]

----------------------------------------------------------------------------
(* The Relevance Gate (lines 236-244) *)

subject_keywords ==
    [ English |->
        { <<"r", "e", "a", "d", "i", "n", "g">>,
          <<"w", "r", "i", "t", "i", "n", "g">>,
          <<"s", "t", "o", "r", "y">>,
          <<"w", "o", "r", "d", "s">>,
          <<"s", "e", "n", "t", "e", "n", "c", "e">>,
          <<"b", "o", "o", "k">>,
          <<"l", "e", "t", "t", "e", "r">> },
      Mathematics |->
        { <<"n", "u", "m", "b", "e", "r">>,
          <<"c", "o", "u", "n", "t">>,
          <<"a", "d", "d">>,
          <<"s", "u", "b", "t", "r", "a", "c", "t">>,
          <<"m", "u", "l", "t", "i", "p", "l", "y">>,
          <<"d", "i", "v", "i", "d", "e">>,
          <<"s", "h", "a", "p", "e">> },
      Science |->
        { <<"p", "l", "a", "n", "t">>,
          <<"a", "n", "i", "m", "a", "l">>,
          <<"w", "e", "a", "t", "h", "e", "r">>,
          <<"s", "p", "a", "c", "e">>,
          <<"r", "o", "c", "k">>,
          <<"w", "a", "t", "e", "r">>,
          <<"l", "i", "g", "h", "t">>,
          <<"s", "o", "u", "n", "d">> } ]

\* subject_keywords.get(subject, [])
KeywordsFor(subject) ==
    IF subject \in DOMAIN subject_keywords THEN subject_keywords[subject] ELSE {}

\* the query looked up as typed
query_as_typed(q) == q

\* the string the keywords are looked up in (line 243)
query_lower(q) == lower(q)

is_query_relevant(q, subject) ==
    \E keyword \in KeywordsFor(subject) : StrIn(keyword, query_lower(q))

----------------------------------------------------------------------------
(* Prompt construction (lines 234, 246-270) *)

NoDataFound == "No curriculum data found, but I'll provide a response!"

\* "\n\n".join([f"Excerpt: {r['text']}" for r in results]) if results else ...
\* the joined string is kept as the sequence of the strings joined
Context(res) ==
    IF res # << >> THEN [n \in 1..Len(res) |-> "Excerpt: " \o res[n].text]
    ELSE <<NoDataFound>>

GenericExample == <<"Here's an example sentence for you!">>

ExampleTable ==
    << <<"The sun is big and yellow!", "A bunny hops quickly.", "Flowers grow in soil!">>,
       <<"The moon shines at night.", "Fish swim in water.", "Trees grow tall!">>,
       <<"Stars shine in the sky!", "Frogs live near ponds.", "The sun helps plants grow!">>,
       <<"Rivers flow to the sea.", "Birds use wings to fly.", "Magnets attract metal!">>,
       <<"Volcanoes release lava!", "Fish live in oceans.", "Shadows change with the sun!">>,
       <<"Planets orbit the sun!", "Wind carries seeds.", "Light creates rainbows!">>,
       <<"Earth's plates cause quakes!", "Clouds form rain.", "Electricity powers lights!">>,
       <<"Cells are life's building blocks!", "Rocks reveal Earth's past.", "Gravity keeps us grounded!">>,
       <<"Atoms form everything!", "Heat turns water to steam.", "Sound travels in waves!">>,
       <<"Stars explode in space!", "Chemicals react together.", "Forces affect motion!">>,
       <<"Genes control traits!", "Earth orbits the sun.", "Energy flows in circuits!">> >>

\* the dict of lines 249-260 with its .get(selected_level, [generic example])
examples(level) ==
    IF level = FoundationStr THEN ExampleTable[1]
    ELSE IF \E i \in 1..10 : level = YearPrefix \o DecStr(i)
    THEN ExampleTable[1 + CHOOSE i \in 1..10 : level = YearPrefix \o DecStr(i)]
    ELSE GenericExample

\* the two signals chained: the grounded prompt only when excerpts were found
CustomPromptChained(gate, area, level, q, context) ==
    IF gate /\ context # <<NoDataFound>>
    THEN [template |-> "grounded", area |-> area, level |-> level, query |-> q,
          body |-> context]
    ELSE [template |-> "redirect", area |-> area, level |-> level, query |-> q,
          body |-> examples(level)]

\* the prompt of a Custom request: line 247 when the gate says relevant, line
\* 262 otherwise.  A prompt is kept as its template and what is spliced in.
CustomPrompt(gate, area, level, q, context) ==
    IF gate
    THEN [template |-> "grounded", area |-> area, level |-> level, query |-> q,
          body |-> context]
    ELSE [template |-> "redirect", area |-> area, level |-> level, query |-> q,
          body |-> examples(level)]

\* the prompts of lines 264-270, which differ in the activity type they name
\* (kept in the query field) and splice in the context of line 264
FixedPrompt(type, level) ==
    [template |-> "fixed", area |-> None, level |-> level, query |-> type,
     body |-> <<"Create a ", lower(type), " activity for ", level>>]

----------------------------------------------------------------------------
(* The inputs of the requests *)

StoryStr == <<"S", "t", "o", "r", "y">>

MathsStr == <<"M", "a", "t", "h", "s">>

ScienceStr == <<"S", "c", "i", "e", "n", "c", "e">>

CustomStr == <<"C", "u", "s", "t", "o", "m">>

\* the options of the selectbox of line 202
question_types == {StoryStr, MathsStr, ScienceStr, CustomStr}

\* the default text of the query box (line 221)
CPUQuery == <<"C", "P", "U">>

PlantLifeQuery == <<"P", "L", "A", "N", "T", " ", "l", "i", "f", "e">>

\* the queries typed in the modelled requests
QueryChoices == {CPUQuery, PlantLifeQuery}

\* the year levels picked in the modelled requests: Foundation, Year 1, Year 2
LevelChoices == {levels[1], levels[2], levels[3]}

\* the value of query for a fixed activity type (line 223)
GeneratedQuery(type, level) ==
    <<"Generate a ", lower(type), " activity for ", level>>

\* one external call of the request and whether it succeeded
Call(op, ok) == [op |-> op, ok |-> ok]

\* n successful calls of op in a row
Calls(op, n) == [j \in 1..n |-> Call(op, TRUE)]


----------------------------------------------------------------------------
(* The state machine of the requests *)

\* the values of a script run before the button is pressed
Idle ==
    /\ question_type = NoneStr
    /\ query = NoneStr
    /\ selected_area = None
    /\ selected_level = NoneStr
    /\ top_k = 0
    /\ filtered_chunks = << >>
    /\ indices = << >>
    /\ selected_level_internal = NoneStr
    /\ result_slots = << >>
    /\ results = << >>
    /\ relevant = FALSE
    /\ calls = << >>
    /\ st_errors = << >>
    /\ prompt = NoPrompt

Init ==
    /\ metadata_store \in Corpora
    /\ pc = "idle"
    /\ Idle

\* the locals of query_graph_rag, which the actions outside it leave alone
RagLocals == <<filtered_chunks, indices, selected_level_internal, result_slots>>

Inputs == <<question_type, query, selected_area, selected_level, top_k>>

\* "Generate Activity" pressed with activity type Custom and a query (lines
\* 209-210, 227-233); line 210 needs "Science" among the learning areas
GenerateCustom(q, area, level, k) ==
    /\ pc = "idle"
    /\ "Science" \in learning_areas
    /\ area \in learning_areas
    /\ question_type' = CustomStr
    /\ query' = q
    /\ selected_area' = area
    /\ selected_level' = level
    /\ top_k' = k
    /\ pc' = "load_model"
    /\ UNCHANGED <<metadata_store, RagLocals, results, relevant, calls,
                   st_errors, prompt>>

\* pressed with activity type Custom and the query box empty (lines 228-229)
GenerateEmptyQuery(area, level) ==
    /\ pc = "idle"
    /\ "Science" \in learning_areas
    /\ area \in learning_areas
    /\ question_type' = CustomStr
    /\ query' = << >>
    /\ selected_area' = area
    /\ selected_level' = level
    /\ st_errors' = Append(st_errors, "Please enter a query first.")
    /\ pc' = "done"
    /\ UNCHANGED <<metadata_store, top_k, RagLocals, results, relevant, calls,
                   prompt>>

\* pressed with a fixed activity type (lines 212, 223, 263-270)
GenerateFixed(type, level) ==
    /\ pc = "idle"
    /\ type # CustomStr
    /\ question_type' = type
    /\ query' = GeneratedQuery(type, level)
    /\ selected_area' = None
    /\ selected_level' = level
    /\ prompt' = FixedPrompt(type, level)
    /\ pc' = "generate"
    /\ UNCHANGED <<metadata_store, top_k, RagLocals, results, relevant, calls,
                   st_errors>>

\* lines 35-37: the embedding model loads
LoadModelOK ==
    /\ pc = "load_model"
    /\ calls' = Append(calls, Call("load", TRUE))
    /\ pc' = "filter"
    /\ UNCHANGED <<metadata_store, Inputs, RagLocals, results, relevant,
                   st_errors, prompt>>

\* lines 38-40: loading the embedding model raises
LoadModelFail ==
    /\ pc = "load_model"
    /\ calls' = Append(calls, Call("load", FALSE))
    /\ st_errors' = Append(st_errors, "Oops! Something went wrong with the learning tool")
    /\ results' = << >>
    /\ pc' = "returned"
    /\ UNCHANGED <<metadata_store, Inputs, RagLocals, relevant, prompt>>

\* the early return of lines 51-52 left out
ViewIsEmptyIgnored(fc) == FALSE

\* lines 51-52
ViewIsEmpty(fc) == fc = << >>

\* lines 42-55: the level map, the Metadata Filter and the early return
Filter ==
    /\ pc = "filter"
    /\ selected_level_internal' = level_map[selected_level]
    /\ filtered_chunks' = FilteredChunks(metadata_store, selected_area, selected_level)
    /\ IF ViewIsEmpty(filtered_chunks')
       THEN /\ results' = << >>
            /\ pc' = "returned"
       ELSE /\ results' = results
            /\ pc' = "encode"
    /\ UNCHANGED <<metadata_store, Inputs, indices, result_slots, relevant,
                   calls, st_errors, prompt>>

\* lines 57-58: every filtered text and then the query are embedded
EncodeOK ==
    /\ pc = "encode"
    /\ calls' = calls \o Calls("encode", Len(filtered_chunks) + 1)
    /\ pc' = "search"
    /\ UNCHANGED <<metadata_store, Inputs, RagLocals, results, relevant,
                   st_errors, prompt>>

\* the diagnostic of line 61
MagicWords == "Uh-oh! Trouble with the magic words"

\* a handler that reports the failure and tries the embeddings again
CaughtAndRetried ==
    /\ st_errors' = Append(st_errors, MagicWords)
    /\ results' = << >>
    /\ pc' = "encode"

\* what the handler of lines 60-62 leaves behind
CaughtInSearchBlock ==
    /\ st_errors' = Append(st_errors, MagicWords)
    /\ results' = << >>
    /\ pc' = "returned"

\* lines 57-58, 60-62: the j-th embedding of the request raises
EncodeFail(j) ==
    /\ pc = "encode"
    /\ j \in 1..(Len(filtered_chunks) + 1)
    /\ calls' = (calls \o Calls("encode", j - 1)) \o <<Call("encode", FALSE)>>
    /\ CaughtInSearchBlock
    /\ UNCHANGED <<metadata_store, Inputs, RagLocals, relevant, prompt>>

\* lines 59, 64-73: the search returns its top_k slots, the loop reconciles
\* them with the Filtered View and the function returns
SearchOK ==
    /\ pc = "search"
    /\ \E res \in IndexResults(Len(metadata_store), top_k) :
          /\ indices' = res
          /\ results' = Reconcile(res, filtered_chunks)
          /\ result_slots' = EmittingSlots(res, filtered_chunks, 1)
    /\ calls' = Append(calls, Call("search", TRUE))
    /\ pc' = "returned"
    /\ UNCHANGED <<metadata_store, Inputs, filtered_chunks,
                   selected_level_internal, relevant, st_errors, prompt>>

\* lines 59-62: the search raises
SearchFail ==
    /\ pc = "search"
    /\ calls' = Append(calls, Call("search", FALSE))
    /\ CaughtInSearchBlock
    /\ UNCHANGED <<metadata_store, Inputs, RagLocals, relevant, prompt>>

\* lines 233-262: back in the handler, whose locals of query_graph_rag are gone
BuildPrompt ==
    /\ pc = "returned"
    /\ relevant' = is_query_relevant(query, selected_area)
    /\ prompt' = CustomPrompt(relevant', selected_area, selected_level, query,
                              Context(results))
    /\ filtered_chunks' = << >>
    /\ indices' = << >>
    /\ selected_level_internal' = NoneStr
    /\ result_slots' = << >>
    /\ pc' = "generate"
    /\ UNCHANGED <<metadata_store, Inputs, results, calls, st_errors>>

\* lines 272-273: the generation service answers
GenerateOK ==
    /\ pc = "generate"
    /\ calls' = Append(calls, Call("generate", TRUE))
    /\ pc' = "done"
    /\ UNCHANGED <<metadata_store, Inputs, RagLocals, results, relevant,
                   st_errors, prompt>>

\* lines 274-276: the generation service raises
GenerateFail ==
    /\ pc = "generate"
    /\ calls' = Append(calls, Call("generate", FALSE))
    /\ st_errors' = Append(st_errors, "Error generating activity")
    /\ pc' = "done"
    /\ UNCHANGED <<metadata_store, Inputs, RagLocals, results, relevant, prompt>>

\* the next script run starts from scratch; the loaded resources stay
NextRun ==
    /\ pc = "done"
    /\ pc' = "idle"
    /\ question_type' = NoneStr
    /\ query' = NoneStr
    /\ selected_area' = None
    /\ selected_level' = NoneStr
    /\ top_k' = 0
    /\ filtered_chunks' = << >>
    /\ indices' = << >>
    /\ selected_level_internal' = NoneStr
    /\ result_slots' = << >>
    /\ results' = << >>
    /\ relevant' = FALSE
    /\ calls' = << >>
    /\ st_errors' = << >>
    /\ prompt' = NoPrompt
    /\ UNCHANGED metadata_store

Next ==
    \/ \E q \in QueryChoices, area \in {"Science", "Mathematics"},
          level \in LevelChoices, k \in 1..MaxTopK :
            GenerateCustom(q, area, level, k)
    \/ \E area \in {"Science", "Mathematics"}, level \in LevelChoices :
            GenerateEmptyQuery(area, level)
    \/ \E type \in question_types, level \in LevelChoices :
            GenerateFixed(type, level)
    \/ LoadModelOK
    \/ LoadModelFail
    \/ Filter
    \/ EncodeOK
    \/ \E j \in 1..(MaxChunks + 1) : EncodeFail(j)
    \/ SearchOK
    \/ SearchFail
    \/ BuildPrompt
    \/ GenerateOK
    \/ GenerateFail
    \/ NextRun

Spec == Init /\ [][Next]_vars

----------------------------------------------------------------------------
(* The two pure functions on their own: is_query_relevant over a larger set *)
(* of queries and subjects, and the level map over every label of levels.  *)

\* every string of at most MaxQueryLen of these characters is a query
QueryAlphabet == {"a", "d", "D"}

BoundedQueries ==
    UNION { [1..len -> QueryAlphabet] : len \in 0..MaxQueryLen }

GateQueries ==
    BoundedQueries \cup
    { CPUQuery, lower(CPUQuery), PlantLifeQuery, lower(PlantLifeQuery),
      <<"p", "l", "a", "n", "t", " ", "g", "r", "o", "w", "t", "h">>,
      <<"A", "d", "d", " ", "t", "w", "o", " ", "n", "u", "m", "b", "e", "r", "s">>,
      <<"M", "y", " ", "B", "o", "o", "k">>,
      <<"s", "p", "o", "r", "t", "s", " ", "d", "a", "y">> }

\* "Health" has no entry in subject_keywords
GateSubjects == {"English", "Mathematics", "Science", "Health"}

InitPure ==
    /\ metadata_store = <<Chunk(0, [learning_area |-> "Science", level |-> Level2Str])>>
    /\ pc = "idle"
    /\ Idle

\* a call of is_query_relevant (lines 242-244)
GateCall(q, subject) ==
    /\ pc = "idle"
    /\ query' = q
    /\ selected_area' = subject
    /\ relevant' = is_query_relevant(q, subject)
    /\ pc' = "gate_returned"
    /\ UNCHANGED <<metadata_store, question_type, selected_level, top_k,
                   RagLocals, results, calls, st_errors, prompt>>

\* the lookup of line 43; a label that is no key raises KeyError
LevelLookup(label) ==
    /\ pc = "idle"
    /\ selected_level' = label
    /\ selected_level_internal' =
          IF label \in DOMAIN level_map THEN level_map[label] ELSE KeyError
    /\ pc' = "level_returned"
    /\ UNCHANGED <<metadata_store, question_type, query, selected_area, top_k,
                   filtered_chunks, indices, result_slots, results, relevant,
                   calls, st_errors, prompt>>

PureReturn ==
    /\ pc \in {"gate_returned", "level_returned"}
    /\ pc' = "idle"
    /\ query' = NoneStr
    /\ selected_area' = None
    /\ relevant' = FALSE
    /\ selected_level' = NoneStr
    /\ selected_level_internal' = NoneStr
    /\ UNCHANGED <<metadata_store, question_type, top_k, filtered_chunks,
                   indices, result_slots, results, calls, st_errors, prompt>>

NextPure ==
    \/ \E q \in GateQueries, subject \in GateSubjects : GateCall(q, subject)
    \/ \E n \in 1..Len(levels) : LevelLookup(levels[n])
    \/ PureReturn

SpecPure == InitPure /\ [][NextPure]_vars

----------------------------------------------------------------------------
(* Properties *)

\* a occurs in b as a run of consecutive characters
IsSubstring(a, b) ==
    \E off \in 0..(Len(b) - Len(a)) : SubSeq(b, off + 1, off + Len(a)) = a

\* the filter predicate as the specification words it, on a chunk of the store
SatisfiesFilter(chunk, area, tag) ==
    /\ chunk.metadata.learning_area = area
    /\ IsSubstring(tag, chunk.metadata.level) \/ chunk.metadata.level = UnknownStr

\* the internal tag of a user-facing label: "Foundation" for "Foundation",
\* "Level i" for "Year i"
InternalTag(label) ==
    IF label = FoundationStr THEN FoundationStr
    ELSE LevelPrefix \o SubSeq(label, Len(YearPrefix) + 1, Len(label))

\* the calls of query_graph_rag to the embedding model and the index
RetrievalOps == {"load", "encode", "search"}

\* query_graph_rag has returned to the handler
Returned == pc = "returned"

\* query_graph_rag has returned from its last line (line 73)
ReturnedFromSearch ==
    /\ Returned
    /\ calls # << >>
    /\ calls[Len(calls)] = Call("search", TRUE)

\* a call of query_graph_rag failed in this request
RetrievalFailed ==
    \E n \in 1..Len(calls) : calls[n].op \in RetrievalOps /\ ~calls[n].ok

\* the diagnostics query_graph_rag has shown in this request
RetrievalDiagnostics ==
    { n \in 1..Len(st_errors) :
        st_errors[n] \in {MagicWords, "Oops! Something went wrong with the learning tool"} }

\* C1: for a non-empty Filtered View, query_graph_rag returns at most
\* min(top_k, |Filtered View|) excerpts, whatever slots the index returns.
C1_AtMostMinTopKView ==
    (ReturnedFromSearch /\ filtered_chunks # << >>)
        => Len(results) <= Min(top_k, Len(filtered_chunks))

\* C2: when no chunk of the Corpus Store satisfies the filter predicate for the
\* request's (area, level), query_graph_rag returns the empty sequence and the
\* request never embeds anything nor searches the index.
C2_EmptyViewNoSearch ==
    (/\ question_type = CustomStr
     /\ calls # << >>
     /\ calls[1] = Call("load", TRUE)
     /\ pc # "filter"
     /\ \A n \in 1..Len(metadata_store) :
           ~SatisfiesFilter(metadata_store[n], selected_area,
                            InternalTag(selected_level)))
        => /\ pc \in {"returned", "generate", "done"}
           /\ results = << >>
           /\ \A n \in 1..Len(calls) : calls[n].op \notin {"search", "encode"}

C2_Witness ==
    /\ Returned
    /\ calls = <<Call("load", TRUE)>>
    /\ filtered_chunks = << >>
    /\ results = << >>
    /\ Len(metadata_store) = MaxChunks

\* C3: a failure of the model load, of an embedding or of the index search
\* ends query_graph_rag's calls (no retry), makes it return the empty sequence
\* with exactly one diagnostic, and the handler goes on to build a prompt.
C3_FailureIsCaught ==
    /\ \A n \in 1..Len(calls) :
          (calls[n].op \in RetrievalOps /\ ~calls[n].ok)
             => \A m \in (n + 1)..Len(calls) : calls[m].op \notin RetrievalOps
    /\ RetrievalFailed
          => /\ pc \in {"returned", "generate", "done"}
             /\ results = << >>
             /\ Cardinality(RetrievalDiagnostics) = 1
             /\ pc = "returned" => ENABLED BuildPrompt
             /\ pc \in {"generate", "done"} => prompt # NoPrompt

C3_Witness ==
    /\ pc = "generate"
    /\ calls # << >>
    /\ calls[Len(calls)] = Call("search", FALSE)
    /\ st_errors = <<MagicWords>>
    /\ results = << >>
    /\ prompt # NoPrompt

\* C4: the Filtered View holds exactly the (position, chunk) pairs of the
\* store, in store order, whose learning_area equals the area and whose level
\* contains the internal level tag or is "Unknown".
C4_FilteredViewExact ==
    pc \in {"encode", "search", "returned"} /\ selected_level_internal # NoneStr
        => /\ \A n \in 1..Len(filtered_chunks) :
                 /\ filtered_chunks[n][1] \in 0..(Len(metadata_store) - 1)
                 /\ filtered_chunks[n][2] = metadata_store[filtered_chunks[n][1] + 1]
                 /\ SatisfiesFilter(filtered_chunks[n][2], selected_area,
                                    InternalTag(selected_level))
           /\ \A a, b \in 1..Len(filtered_chunks) :
                 a < b => filtered_chunks[a][1] < filtered_chunks[b][1]
           /\ \A m \in 1..Len(metadata_store) :
                 SatisfiesFilter(metadata_store[m], selected_area,
                                 InternalTag(selected_level))
                    => \E n \in 1..Len(filtered_chunks) :
                          filtered_chunks[n][1] = m - 1

\* the first scenario of the specification
C4_Witness ==
    /\ pc = "encode"
    /\ selected_area = "Science"
    /\ selected_level = levels[3]
    /\ Len(metadata_store) = 2
    /\ metadata_store[1].metadata = [learning_area |-> "Science", level |-> Level2Str]
    /\ metadata_store[2].metadata = [learning_area |-> "Mathematics", level |-> Level2Str]
    /\ filtered_chunks = << <<0, metadata_store[1]>> >>

\* C5: the excerpts come out in the order of the index slots they were read
\* from, so their index distances never decrease along the output.
C5_NearestFirst ==
    ReturnedFromSearch
        => /\ Len(result_slots) = Len(results)
           /\ \A n \in 1..Len(results) :
                 results[n].chunk_id =
                    PyItem(filtered_chunks, indices[result_slots[n]].pos)[2].id
           /\ \A a, b \in 1..Len(results) :
                 a < b => /\ result_slots[a] < result_slots[b]
                          /\ indices[result_slots[a]].dist
                                <= indices[result_slots[b]].dist

C5_Witness ==
    /\ ReturnedFromSearch
    /\ Len(results) >= 2
    /\ indices[result_slots[1]].dist < indices[result_slots[2]].dist

\* C6: a slot whose position lies outside 0 .. |Filtered View|-1 contributes
\* no excerpt, and a slot whose position lies inside contributes exactly the
\* Filtered View entry at that offset.
C6_OutOfRangeDropped ==
    ReturnedFromSearch
        => /\ \A j \in 1..Len(indices) :
                 Cardinality({ n \in 1..Len(result_slots) : result_slots[n] = j })
                    = IF indices[j].pos \in 0..(Len(filtered_chunks) - 1)
                      THEN 1 ELSE 0
           /\ \A n \in 1..Len(results) :
                 indices[result_slots[n]].pos \in 0..(Len(filtered_chunks) - 1)
                    => results[n] =
                         [chunk_id |-> filtered_chunks[indices[result_slots[n]].pos + 1][2].id,
                          text     |-> filtered_chunks[indices[result_slots[n]].pos + 1][2].text]

\* C7: is_query_relevant always answers, and answers true iff a keyword of the
\* subject occurs in the lower-cased query: false for a subject without
\* keywords, the same for queries that differ in letter case only.
C7_GateIsKeywordSubstring ==
    pc = "gate_returned"
        => /\ relevant =
                 (/\ selected_area \in DOMAIN subject_keywords
                  /\ \E kw \in subject_keywords[selected_area] :
                        IsSubstring(kw, lower(query)))
           /\ selected_area \notin DOMAIN subject_keywords => relevant = FALSE
           /\ \A q \in GateQueries :
                 lower(q) = lower(query)
                    => is_query_relevant(q, selected_area) = relevant
           /\ (query = CPUQuery /\ selected_area = "Science") => relevant = FALSE

C7_Witness ==
    /\ pc = "gate_returned"
    /\ query = PlantLifeQuery
    /\ selected_area = "Science"
    /\ relevant = TRUE

\* C8: the prompt of a Custom request is chosen by the gate alone: the
\* examples of the level and no excerpt when the gate says no; the excerpts,
\* or the placeholder exactly when there are none, when it says yes.
C8_GateAloneChoosesPrompt ==
    (question_type = CustomStr /\ pc \in {"generate", "done"} /\ prompt # NoPrompt)
        => /\ relevant = (\E kw \in KeywordsFor(selected_area) :
                             IsSubstring(kw, lower(query)))
           /\ ~relevant
                 => /\ prompt.template = "redirect"
                    /\ prompt.body \in { ExampleTable[n] : n \in 1..Len(ExampleTable) }
                    /\ \A n \in 1..Len(levels) :
                          selected_level = levels[n] => prompt.body = ExampleTable[n]
                    /\ \A n \in 1..Len(results), m \in 1..Len(prompt.body) :
                          /\ prompt.body[m] # results[n].text
                          /\ prompt.body[m] # "Excerpt: " \o results[n].text
           /\ relevant
                 => /\ prompt.template = "grounded"
                    /\ (prompt.body = <<NoDataFound>>) = (results = << >>)
                    /\ results # << >>
                          => /\ Len(prompt.body) = Len(results)
                             /\ \A n \in 1..Len(results) :
                                   prompt.body[n] = "Excerpt: " \o results[n].text

\* the gate says no although excerpts were retrieved
C8_Witness ==
    /\ pc = "generate"
    /\ question_type = CustomStr
    /\ relevant = FALSE
    /\ results # << >>
    /\ prompt.template = "redirect"

\* the inverse of the level map on an internal tag
LevelLabelOf(tag) == CHOOSE label \in DOMAIN level_map : level_map[label] = tag

C10_OnlyFilteredChunks ==
    Returned
        => \A n \in 1..Len(results) :
              \E m \in 1..Len(metadata_store) :
                 /\ results[n] = [chunk_id |-> metadata_store[m].id,
                                  text     |-> metadata_store[m].text]
                 /\ SatisfiesFilter(metadata_store[m], selected_area,
                                    InternalTag(selected_level))

\* an excerpt was read from a slot whose store position is a chunk of another
\* subject
C10_Witness ==
    /\ ReturnedFromSearch
    /\ \E n \in 1..Len(results) :
          /\ indices[result_slots[n]].pos >= 0
          /\ metadata_store[indices[result_slots[n]].pos + 1].metadata.learning_area
                # selected_area

============================================================================
